---- MODULE Spec2Model ----
(***************************************************************************)
(* Model of the piece manager of pears (src/client.py): the block/piece    *)
(* bookkeeping of PieceManager, Piece and Block, the request strategy of   *)
(* next_request and the verification step of block_received.               *)
(*                                                                         *)
(* Lists of Piece objects are sequences of piece indexes; the objects'     *)
(* fields live in the function `pieces`.  Python indexes from 0, TLA+      *)
(* sequences from 1: Bit and InRange do the shift.  An IndexError raised   *)
(* by indexing a bitfield is an outcome of the operation (kind             *)
(* "IndexError"); the code raises before it mutates anything.              *)
(*                                                                         *)
(* next_request and block_received are operators from the current state to *)
(* what the call returns and the fields it leaves behind; the actions      *)
(* NextRequest and BlockReceived install those fields.                     *)
(***************************************************************************)
EXTENDS Integers, Sequences, FiniteSets, TLC

\* Block size.  protocol.REQUEST_SIZE is 16384; the model scales it down and
\* keeps every length of the metainfo relative to it.
REQUEST_SIZE == 2

\* Number of clock advances in a behaviour.
MaxTicks == 1

\* Number of deliveries of wrong bytes in a behaviour.
MaxCorrupt == 1

\* Largest piece_length and total_length of the metainfos whose block layout
\* is examined.
MaxPieceLength == 5

MaxTotalLength == 12

\* Size of the worker pool.  client.MAX_PEER_CONNECTIONS is 40; the model
\* scales it down.
MAX_PEER_CONNECTIONS == 2

\* Number of announce calls and of 5-second sleeps in a run of the controller.
MaxAnnounces == 2

MaxSleeps == 3

\* What the clock reads, in seconds, when the controller starts (never 0).
StartTime == 1

\* self.max_pending_time
max_pending_time == 300 * 1000

PeerIds == {"A", "B"}

\* The metainfo the piece manager is constructed with: a piece of two
\* blocks and a last piece of one block that is a byte short.
Torrents ==
    { [piece_length |-> 2 * REQUEST_SIZE, total_length |-> 3 * REQUEST_SIZE - 1] }

Missing == 0
Pending == 1
Retrieved == 2

\* Block.data before any delivery (None).
NoData == << -1 >>

VARIABLES
    torrent,          \* piece_length, total_length, pieces (the digests)
    peers,            \* self.peers: peer_id -> bitfield
    pieces,           \* the Piece objects: index -> [hash_value, blocks]
    missing_pieces,   \* self.missing_pieces (piece indexes, in list order)
    ongoing_pieces,   \* self.ongoing_pieces
    have_pieces,      \* self.have_pieces
    pending_blocks,   \* self.pending_blocks: PendingRequest(block, added)
    file,             \* content of the output file behind self.fd
    now,              \* int(round(time.time() * 1000))
    ticks,            \* clock advances so far
    corrupt,          \* deliveries of wrong bytes so far
    issued,           \* history: when each outstanding block was last handed out
    client,           \* TorrentClient: its fields and the frame of start()
    tracker,          \* Tracker: http_client closed or not; history: the announces
    fd_closes,        \* number of os.close(self.fd) calls of the piece manager
    handouts          \* history: the blocks the seeder owes, the blocks lost

vars == << torrent, peers, pieces, missing_pieces, ongoing_pieces, have_pieces,
           pending_blocks, file, now, ticks, corrupt, issued,
           client, tracker, fd_closes, handouts >>

\* The controller's side of the state.
controller == << client, tracker, fd_closes >>

----------------------------------------------------------------------------
\* Arithmetic and sequences

Ceil(a, b) == (a + b - 1) \div b

Max(a, b) == IF a >= b THEN a ELSE b

Min(a, b) == IF a <= b THEN a ELSE b

RECURSIVE Concat(_)
Concat(ss) == IF ss = << >> THEN << >> ELSE Head(ss) \o Concat(Tail(ss))

SelectIndexes(s, Test(_)) == { k \in 1..Len(s) : Test(s[k]) }

SetMin(S) == CHOOSE x \in S : \A y \in S : x <= y

\* list.remove(x) / del list[k]: the sequence without its k-th element
RemoveAt(s, k) == SubSeq(s, 1, k - 1) \o SubSeq(s, k + 1, Len(s))

Range(s) == { s[k] : k \in 1..Len(s) }

----------------------------------------------------------------------------
\* Content and digests

\* The byte of the published file at position i (0-based).
FileByte(i) == (3 * i + 1) % 5

\* hashlib.sha1(data).digest(): a digest computed from every byte and its
\* position.
RECURSIVE Sha1From(_, _)
Sha1From(data, h) ==
    IF data = << >> THEN h
    ELSE Sha1From(Tail(data), (31 * h + Head(data) + 1) % 65521)

sha1(data) == Sha1From(data, 7)

TotalPieces(t) == Ceil(t.total_length, t.piece_length)

\* True length of piece i of metainfo t.
LengthOf(t, i) ==
    IF i < TotalPieces(t) - 1 THEN t.piece_length
    ELSE t.total_length - t.piece_length * (TotalPieces(t) - 1)

PieceContent(t, i) ==
    [ k \in 1..LengthOf(t, i) |-> FileByte(t.piece_length * i + k - 1) ]

\* torrent.pieces: one digest per piece
Digests(t) == [ k \in 1..TotalPieces(t) |-> sha1(PieceContent(t, k - 1)) ]

----------------------------------------------------------------------------
\* Construction

Block(piece, offset, length) ==
    [ piece |-> piece, offset |-> offset, length |-> length,
      status |-> Missing, data |-> NoData ]

\* PieceManager._init_pieces: the block list of piece piece_index
InitBlocks(t, piece_index) ==
    LET num_std_blocks == Ceil(t.piece_length, REQUEST_SIZE)
        last_piece_length == t.total_length % t.piece_length
        num_last_blocks == Ceil(last_piece_length, REQUEST_SIZE)
        last_block_length == last_piece_length % REQUEST_SIZE
    IN  IF piece_index < TotalPieces(t) - 1
        THEN [ k \in 1..num_std_blocks |->
                 Block(piece_index, (k - 1) * REQUEST_SIZE, REQUEST_SIZE) ]
        ELSE [ k \in 1..num_last_blocks |->
                 Block(piece_index, (k - 1) * REQUEST_SIZE,
                       IF k = num_last_blocks /\ last_block_length > 0
                       THEN last_block_length ELSE REQUEST_SIZE) ]

_init_pieces(t) ==
    [ i \in 0..(TotalPieces(t) - 1) |->
        [ index |-> i, blocks |-> InitBlocks(t, i), hash_value |-> Digests(t)[i + 1] ] ]

total_pieces == Len(torrent.pieces)

PieceIndexes == 0..(total_pieces - 1)

\* The blocks of the pieces ps, as (piece index, position in piece.blocks)
BlockIds(ps) ==
    UNION { { << i, k >> : k \in 1..Len(ps[i].blocks) } : i \in DOMAIN ps }

\* TorrentClient.__init__.  pc is the position of start(): "new" before it is
\* called, "connect" and "sleep" at its two awaits, and "done", "raised" or
\* "cancelled" once it has ended.  peers maps each worker to whether stop() was
\* invoked on it.  previous_request is << >> for None and << t >> for a time.
\* discarded is history: how many endpoints _empty_queue has thrown away.
NewClient ==
    [ pc |-> "new",
      abort |-> FALSE,
      available_peers |-> << >>,
      peers |-> [ w \in { } |-> FALSE ],
      previous_request |-> << >>,
      request_interval |-> 300,
      current_time |-> 0,
      discarded |-> 0 ]

\* No block has been handed to any peer.  owed tells the blocks returned to
\* the seeder and not yet delivered; lost counts the blocks returned to
\* peers that never deliver.
NoHandOuts == [ owed |-> [ b \in { } |-> FALSE ], lost |-> 0 ]

\* Tracker.__init__.  announces is history: the parameters of each call of
\* connect; responses is history: how each call ended ("ok", "ConnectionError",
\* "NotImplementedError") and the endpoints it returned.
NewTracker == [ closed |-> FALSE, announces |-> << >>, responses |-> << >> ]

\* PieceManager.__init__
Init ==
    /\ \E t \in Torrents :
         /\ torrent = [ piece_length |-> t.piece_length,
                        total_length |-> t.total_length,
                        pieces |-> Digests(t) ]
         /\ pieces = _init_pieces(t)
         /\ missing_pieces = [ k \in 1..TotalPieces(t) |-> k - 1 ]
    /\ peers = [ p \in { } |-> << >> ]
    /\ pending_blocks = << >>
    /\ have_pieces = << >>
    /\ ongoing_pieces = << >>
    /\ file = << >>
    /\ now = 0
    /\ ticks = 0
    /\ corrupt = 0
    /\ issued = [ b \in BlockIds(pieces) |-> -1 ]
    /\ client = NewClient
    /\ tracker = NewTracker
    /\ fd_closes = 0
    /\ handouts = NoHandOuts

----------------------------------------------------------------------------
\* Piece

\* A reset that leaves the blocks as they are: C10_HashMismatchReset fails
\* for it.
reset_nothing(piece) == piece

\* Piece.reset
reset(piece) ==
    [ piece EXCEPT !.blocks =
        [ k \in 1..Len(piece.blocks) |-> [ piece.blocks[k] EXCEPT !.status = Missing ] ] ]

\* Piece.is_complete
is_complete(piece) ==
    { k \in 1..Len(piece.blocks) : piece.blocks[k].status # Retrieved } = { }

\* Piece.next_request: position of the first Missing block, 0 for None
FirstMissing(piece) ==
    LET missing_block == { k \in 1..Len(piece.blocks) : piece.blocks[k].status = Missing }
    IN  IF missing_block # { } THEN SetMin(missing_block) ELSE 0

\* Piece.next_request: the piece with that block marked Pending
MarkPending(piece, k) ==
    IF k = 0 THEN piece ELSE [ piece EXCEPT !.blocks[k].status = Pending ]

\* A lookup that falls back on the first block when none is at that offset:
\* C14_UnknownBlockIgnored fails for it.
BlockAtOrFirst(piece, offset) ==
    LET _block == { k \in 1..Len(piece.blocks) : piece.blocks[k].offset = offset }
    IN  IF _block # { } THEN SetMin(_block) ELSE Min(1, Len(piece.blocks))

\* Piece.block_received: position of the first block at that offset, 0 if none
BlockAt(piece, offset) ==
    LET _block == { k \in 1..Len(piece.blocks) : piece.blocks[k].offset = offset }
    IN  IF _block # { } THEN SetMin(_block) ELSE 0

\* Piece.block_received
piece_block_received(piece, offset, data) ==
    LET k == BlockAt(piece, offset)
    IN  IF k # 0
        THEN [ piece EXCEPT !.blocks[k].status = Retrieved, !.blocks[k].data = data ]
        ELSE piece

\* sorted(self.blocks, key=offset): positions of the blocks in offset order
\* (the sort is stable)
RECURSIVE SortedBlocks(_, _)
SortedBlocks(blocks, left) ==
    IF left = { } THEN << >>
    ELSE LET k == CHOOSE x \in left :
                    \A y \in left : \/ blocks[x].offset < blocks[y].offset
                                    \/ blocks[x].offset = blocks[y].offset /\ x <= y
         IN  << blocks[k] >> \o SortedBlocks(blocks, left \ {k})

\* Piece.data
PieceData(piece) ==
    LET piece_data == SortedBlocks(piece.blocks, 1..Len(piece.blocks))
    IN  Concat([ k \in 1..Len(piece_data) |-> piece_data[k].data ])

\* A digest comparison that always succeeds: C2_HashCorrect fails for it.
hash_unchecked(piece) == TRUE

\* Piece.is_hash_matching
is_hash_matching(piece) == piece.hash_value = sha1(PieceData(piece))

----------------------------------------------------------------------------
\* Bitfields

InRange(bitfield, index) == index >= 0 /\ index < Len(bitfield)

Bit(bitfield, index) == bitfield[index + 1]

RECURSIVE AllBitfields(_)
AllBitfields(n) ==
    IF n = 0 THEN { << >> }
    ELSE { Append(b, x) : b \in AllBitfields(n - 1), x \in {0, 1} }

Ones(n) == [ k \in 1..n |-> 1 ]

\* The bitfields a remote peer announces: the availability maps of the right
\* length that hold the first piece, and one that is a bit short.
Bitfields ==
    { b \in AllBitfields(total_pieces) : b[1] = 1 } \cup { Ones(total_pieces - 1) }

----------------------------------------------------------------------------
\* Output file

\* os.lseek(fd, pos, SEEK_SET); os.write(fd, data): a gap reads as zeros
WriteAt(f, pos, data) ==
    [ k \in 1..Max(Len(f), pos + Len(data)) |->
        IF k > pos /\ k <= pos + Len(data) THEN data[k - pos]
        ELSE IF k <= Len(f) THEN f[k] ELSE 0 ]

\* A write that forgets to seek: C11_OutputLayout fails for it.
_write_at_start(f, piece) == WriteAt(f, 0, PieceData(piece))

\* PieceManager._write
_write(f, piece) == WriteAt(f, torrent.piece_length * piece.index, PieceData(piece))

----------------------------------------------------------------------------
\* PieceManager: properties

\* A manager that never reports completion: C26_LeftNeverNegative fails for it.
complete_never == FALSE

\* PieceManager.complete
complete == Len(have_pieces) = total_pieces

\* PieceManager.bytes_downloaded
bytes_downloaded == Len(have_pieces) * torrent.piece_length

----------------------------------------------------------------------------
\* PieceManager.next_request and its strategies.  Each strategy yields an
\* outcome: kind "Block" (with what identifies the block or the piece),
\* "None", or "IndexError" when a bitfield is indexed past its end.

None == [ kind |-> "None", k |-> 0, piece |-> -1 ]

IndexError == [ kind |-> "IndexError", k |-> 0, piece |-> -1 ]

\* PieceManager._expired_requests, from entry k of pending_blocks on: the
\* position of the first entry whose piece the peer has and that is older
\* than max_pending_time
RECURSIVE ExpiredFrom(_, _, _)
ExpiredFrom(peer_id, current_time, k) ==
    IF k > Len(pending_blocks) THEN None
    ELSE LET request == pending_blocks[k]
         IN  IF ~InRange(peers[peer_id], request.piece) THEN IndexError
             ELSE IF /\ Bit(peers[peer_id], request.piece) # 0
                     /\ current_time > request.added + max_pending_time
                  THEN [ kind |-> "Block", k |-> k, piece |-> request.piece ]
                  ELSE ExpiredFrom(peer_id, current_time, k + 1)

\* An expiry test that already fires at an age of exactly max_pending_time:
\* C6_NoDuplicateBeforeExpiry fails for it.
_expired_requests_inclusive(peer_id) ==
    LET due == { k \in 1..Len(pending_blocks) :
                   /\ InRange(peers[peer_id], pending_blocks[k].piece)
                   /\ Bit(peers[peer_id], pending_blocks[k].piece) # 0
                   /\ now >= pending_blocks[k].added + max_pending_time }
    IN  IF due = { } THEN None
        ELSE [ kind |-> "Block", k |-> SetMin(due), piece |-> pending_blocks[SetMin(due)].piece ]

_expired_requests(peer_id) == ExpiredFrom(peer_id, now, 1)

\* PieceManager._next_ongoing, from position k of ongoing_pieces on: the
\* first ongoing piece the peer has decides, whether or not it still has a
\* Missing block
RECURSIVE OngoingFrom(_, _)
OngoingFrom(peer_id, k) ==
    IF k > Len(ongoing_pieces) THEN None
    ELSE LET index == ongoing_pieces[k]
         IN  IF ~InRange(peers[peer_id], index) THEN IndexError
             ELSE IF Bit(peers[peer_id], index) # 0
                  THEN IF FirstMissing(pieces[index]) # 0
                       THEN [ kind |-> "Block", k |-> FirstMissing(pieces[index]),
                              piece |-> index ]
                       ELSE None
                  ELSE OngoingFrom(peer_id, k + 1)

\* A scan of ongoing_pieces that does not look at the peer's bitfield:
\* C9_OnlyOwnedPieces fails for it.
_next_ongoing_any(peer_id) ==
    LET open == { k \in 1..Len(ongoing_pieces) : FirstMissing(pieces[ongoing_pieces[k]]) # 0 }
    IN  IF open = { } THEN None
        ELSE [ kind |-> "Block", k |-> FirstMissing(pieces[ongoing_pieces[SetMin(open)]]),
               piece |-> ongoing_pieces[SetMin(open)] ]

_next_ongoing(peer_id) == OngoingFrom(peer_id, 1)

\* The counting loops of _get_rarest_piece index the asking peer's bitfield
\* at every missing piece, and every peer's bitfield at every missing piece
\* the asking peer has.
RarestRaises(peer_id) ==
    \E k \in 1..Len(missing_pieces) :
        \/ ~InRange(peers[peer_id], missing_pieces[k])
        \/ /\ Bit(peers[peer_id], missing_pieces[k]) # 0
           /\ \E peer \in DOMAIN peers : ~InRange(peers[peer], missing_pieces[k])

\* piece_count[piece]
piece_count(index) ==
    Cardinality({ peer \in DOMAIN peers : Bit(peers[peer], index) # 0 })

\* The first candidate whatever its count, as _next_missing would choose:
\* C7_RarestFirst fails for it.
FirstPosition(candidates) == SetMin(candidates)

\* min(piece_count, key=...): the first key, in insertion order, with the
\* smallest count.  The result is a position in missing_pieces.
RarestPosition(candidates) ==
    CHOOSE k \in candidates :
        \A j \in candidates :
            \/ piece_count(missing_pieces[k]) < piece_count(missing_pieces[j])
            \/ piece_count(missing_pieces[k]) = piece_count(missing_pieces[j]) /\ k <= j

\* PieceManager._get_rarest_piece: kind "Block" stands for the piece found,
\* k is its position in missing_pieces
_get_rarest_piece(peer_id) ==
    IF RarestRaises(peer_id) THEN IndexError
    ELSE LET candidates == { k \in 1..Len(missing_pieces) :
                               Bit(peers[peer_id], missing_pieces[k]) # 0 }
         IN  IF candidates = { } THEN None
             ELSE [ kind |-> "Block", k |-> RarestPosition(candidates),
                    piece |-> missing_pieces[RarestPosition(candidates)] ]

\* PieceManager._next_missing, from position k of missing_pieces on
RECURSIVE MissingFrom(_, _)
MissingFrom(peer_id, k) ==
    IF k > Len(missing_pieces) THEN None
    ELSE IF ~InRange(peers[peer_id], missing_pieces[k]) THEN IndexError
    ELSE IF Bit(peers[peer_id], missing_pieces[k]) # 0
         THEN [ kind |-> "Block", k |-> k, piece |-> missing_pieces[k] ]
         ELSE MissingFrom(peer_id, k + 1)

_next_missing(peer_id) == MissingFrom(peer_id, 1)

\* What a call of next_request returns (kind "Block" with the block's piece
\* and offset, "None", or "IndexError"), the strategy that answered, and the
\* fields of the manager after the call.
Result(rule, kind, piece, offset, new_pieces, new_missing, new_ongoing, new_pending) ==
    [ rule |-> rule, kind |-> kind, piece |-> piece, offset |-> offset,
      pieces |-> new_pieces, missing_pieces |-> new_missing,
      ongoing_pieces |-> new_ongoing, pending_blocks |-> new_pending ]

\* A call that returns None or raises: nothing is mutated.
Untouched(rule, kind) ==
    Result(rule, kind, -1, -1, pieces, missing_pieces, ongoing_pieces, pending_blocks)

\* A start of a piece that forgets to take it out of missing_pieces:
\* C1_Partition fails for it.
StartPieceKeepsMissing(rule, k) ==
    LET index == missing_pieces[k]
        b == FirstMissing(pieces[index])
    IN  Result(rule,
               IF b # 0 THEN "Block" ELSE "None",
               IF b # 0 THEN index ELSE -1,
               IF b # 0 THEN pieces[index].blocks[b].offset ELSE -1,
               [ pieces EXCEPT ![index] = MarkPending(@, b) ],
               missing_pieces,
               Append(ongoing_pieces, index),
               pending_blocks)

\* The piece at missing_pieces[k] moves to the end of ongoing_pieces and
\* piece.next_request() is returned: nothing is appended to pending_blocks.
StartPiece(rule, k) ==
    LET index == missing_pieces[k]
        b == FirstMissing(pieces[index])
    IN  Result(rule,
               IF b # 0 THEN "Block" ELSE "None",
               IF b # 0 THEN index ELSE -1,
               IF b # 0 THEN pieces[index].blocks[b].offset ELSE -1,
               [ pieces EXCEPT ![index] = MarkPending(@, b) ],
               RemoveAt(missing_pieces, k),
               Append(ongoing_pieces, index),
               pending_blocks)

\* A re-request that registers a second PendingRequest for the block:
\* C25_PendingEntriesUnique fails for it.
ReissueAppends(k) ==
    Result("expired", "Block", pending_blocks[k].piece, pending_blocks[k].offset,
           pieces, missing_pieces, ongoing_pieces,
           Append(pending_blocks, [ pending_blocks[k] EXCEPT !.added = now ]))

\* The re-request of the expired entry at pending_blocks[k]
Reissue(k) ==
    Result("expired", "Block", pending_blocks[k].piece, pending_blocks[k].offset,
           pieces, missing_pieces, ongoing_pieces,
           [ pending_blocks EXCEPT ![k].added = now ])

\* Block k of ongoing piece index is marked Pending and registered
ContinuePiece(index, k) ==
    Result("ongoing", "Block", index, pieces[index].blocks[k].offset,
           [ pieces EXCEPT ![index] = MarkPending(@, k) ],
           missing_pieces, ongoing_pieces,
           Append(pending_blocks,
                  [ piece |-> index, offset |-> pieces[index].blocks[k].offset,
                    added |-> now ]))

\* PieceManager.next_request
next_request(peer_id) ==
    IF peer_id \notin DOMAIN peers THEN Untouched("unknown_peer", "None")
    ELSE
    LET expired == _expired_requests(peer_id)
        ongoing == _next_ongoing(peer_id)
        rarest == _get_rarest_piece(peer_id)
        missing == _next_missing(peer_id)
    IN  CASE expired.kind = "IndexError" -> Untouched("expired", "IndexError")
          [] expired.kind = "Block" -> Reissue(expired.k)
          [] OTHER ->
             CASE ongoing.kind = "IndexError" -> Untouched("ongoing", "IndexError")
               [] ongoing.kind = "Block" -> ContinuePiece(ongoing.piece, ongoing.k)
               [] OTHER ->
                  CASE rarest.kind = "IndexError" -> Untouched("rarest", "IndexError")
                    [] rarest.kind = "Block" -> StartPiece("rarest", rarest.k)
                    [] OTHER ->
                       CASE missing.kind = "IndexError" -> Untouched("missing", "IndexError")
                         [] missing.kind = "Block" -> StartPiece("missing", missing.k)
                         [] OTHER -> Untouched("none", "None")

----------------------------------------------------------------------------
\* PieceManager.block_received

\* A lookup that never finds the request, so that it is never removed:
\* C4_PendingImpliesOngoing fails for it.
PendingNeverFound(piece_index, block_offset) == 0

\* The first PendingRequest for (piece_index, block_offset), 0 if none
PendingAt(piece_index, block_offset) ==
    LET found == { k \in 1..Len(pending_blocks) :
                     /\ pending_blocks[k].piece = piece_index
                     /\ pending_blocks[k].offset = block_offset }
    IN  IF found # { } THEN SetMin(found) ELSE 0

\* A lookup among all the pieces being or already downloaded, not only the
\* ongoing ones: C3_HaveMonotone fails for it.
OngoingOrHaveAt(piece_index) ==
    LET found == { k \in 1..Len(ongoing_pieces) : ongoing_pieces[k] = piece_index }
    IN  IF found # { } THEN SetMin(found)
        ELSE IF piece_index \in Range(have_pieces) THEN Len(ongoing_pieces) + 1
        ELSE 0

\* [piece for piece in self.ongoing_pieces if piece.index == piece_index]:
\* position of the first one, 0 if none
OngoingAt(piece_index) ==
    LET found == { k \in 1..Len(ongoing_pieces) : ongoing_pieces[k] = piece_index }
    IN  IF found # { } THEN SetMin(found) ELSE 0

\* The fields of the manager and the file after the call, and the branch
\* taken: "written", "reset", "stored" or "not_ongoing".
Received(branch, new_pieces, new_ongoing, new_have, new_pending, new_file) ==
    [ branch |-> branch, pieces |-> new_pieces, ongoing_pieces |-> new_ongoing,
      have_pieces |-> new_have, pending_blocks |-> new_pending, file |-> new_file ]

block_received(peer_id, piece_index, block_offset, data) ==
    LET e == PendingAt(piece_index, block_offset)
        pending == IF e # 0 THEN RemoveAt(pending_blocks, e) ELSE pending_blocks
        o == OngoingAt(piece_index)
        piece == piece_block_received(pieces[piece_index], block_offset, data)
    IN  IF o # 0
        THEN IF is_complete(piece)
             THEN IF is_hash_matching(piece)
                  THEN Received("written", [ pieces EXCEPT ![piece_index] = piece ],
                                RemoveAt(ongoing_pieces, o),
                                Append(have_pieces, piece_index),
                                pending, _write(file, piece))
                  ELSE Received("reset", [ pieces EXCEPT ![piece_index] = reset(piece) ],
                                ongoing_pieces, have_pieces, pending, file)
             ELSE Received("stored", [ pieces EXCEPT ![piece_index] = piece ],
                           ongoing_pieces, have_pieces, pending, file)
        ELSE Received("not_ongoing", pieces, ongoing_pieces, have_pieces, pending, file)

----------------------------------------------------------------------------
\* The history variable: issued[b] is the clock reading at which block b
\* (piece index, position) was last handed out, for as long as b stays
\* Pending; -1 once the block is delivered or its piece is reset, and before
\* it is handed out.
Outstanding(ps, handed) ==
    [ b \in DOMAIN issued |->
        IF b \in handed THEN now
        ELSE IF ps[b[1]].blocks[b[2]].status = Pending THEN issued[b] ELSE -1 ]

----------------------------------------------------------------------------
\* Actions

NextRequest(peer_id) ==
    LET r == next_request(peer_id)
    IN  /\ pieces' = r.pieces
        /\ missing_pieces' = r.missing_pieces
        /\ ongoing_pieces' = r.ongoing_pieces
        /\ pending_blocks' = r.pending_blocks
        /\ issued' = Outstanding(r.pieces,
                                 IF r.kind = "Block"
                                 THEN { << r.piece, BlockAt(pieces[r.piece], r.offset) >> }
                                 ELSE { })
        /\ UNCHANGED << torrent, peers, have_pieces, file, now, ticks, corrupt >>
        /\ UNCHANGED << controller, handouts >>

\* The bytes an honest peer sends for (piece_index, block_offset): the slice
\* of the piece's content, cut at the piece's end (empty for a block that
\* does not exist).
TrueChunk(piece_index, block_offset) ==
    IF piece_index \notin PieceIndexes THEN << >>
    ELSE LET content == PieceContent(torrent, piece_index)
         IN  SubSeq(content, block_offset + 1,
                    Min(block_offset + REQUEST_SIZE, Len(content)))

\* Wrong bytes of the same length.
Corrupt(chunk) == [ chunk EXCEPT ![1] = (chunk[1] + 1) % 256 ]

\* What a PIECE message for (piece_index, block_offset) may carry: the right
\* bytes or wrong ones; for a block that does not exist, no bytes.
DataChoices(piece_index, block_offset) ==
    IF TrueChunk(piece_index, block_offset) = << >> THEN { << >> }
    ELSE { TrueChunk(piece_index, block_offset), Corrupt(TrueChunk(piece_index, block_offset)) }

\* Offsets a PIECE message for piece_index may carry: those of the piece's
\* blocks and one that is none of them.
Offsets(piece_index) ==
    IF piece_index \notin PieceIndexes THEN { 0 }
    ELSE { k * REQUEST_SIZE : k \in 0..Len(pieces[piece_index].blocks) }

\* A PIECE message arrives (TorrentClient._on_block_retrieved); at most
\* MaxCorrupt of them carry wrong bytes.
BlockReceived(peer_id, piece_index, block_offset, data) ==
    LET r == block_received(peer_id, piece_index, block_offset, data)
    IN  /\ data # TrueChunk(piece_index, block_offset) => corrupt < MaxCorrupt
        /\ corrupt' = IF data # TrueChunk(piece_index, block_offset)
                      THEN corrupt + 1 ELSE corrupt
        /\ pieces' = r.pieces
        /\ ongoing_pieces' = r.ongoing_pieces
        /\ have_pieces' = r.have_pieces
        /\ pending_blocks' = r.pending_blocks
        /\ file' = r.file
        /\ issued' = Outstanding(r.pieces, { })
        /\ UNCHANGED << torrent, peers, missing_pieces, now, ticks >>
        /\ UNCHANGED << controller, handouts >>

\* PieceManager.add_peer
add_peer(peer_id, bitfield) ==
    /\ peers' = [ p \in DOMAIN peers \cup {peer_id} |->
                    IF p = peer_id THEN bitfield ELSE peers[p] ]
    /\ UNCHANGED << torrent, pieces, missing_pieces, ongoing_pieces, have_pieces,
                    pending_blocks, file, now, ticks, corrupt, issued >>
    /\ UNCHANGED << controller, handouts >>

\* PieceManager.update_peer: an index past the bitfield's end raises
\* IndexError and changes nothing
update_peer(peer_id, index) ==
    /\ peers' = IF peer_id \in DOMAIN peers /\ InRange(peers[peer_id], index)
                THEN [ peers EXCEPT ![peer_id][index + 1] = 1 ]
                ELSE peers
    /\ UNCHANGED << torrent, pieces, missing_pieces, ongoing_pieces, have_pieces,
                    pending_blocks, file, now, ticks, corrupt, issued >>
    /\ UNCHANGED << controller, handouts >>

\* PieceManager.remove_peer
remove_peer(peer_id) ==
    /\ peers' = [ p \in DOMAIN peers \ {peer_id} |-> peers[p] ]
    /\ UNCHANGED << torrent, pieces, missing_pieces, ongoing_pieces, have_pieces,
                    pending_blocks, file, now, ticks, corrupt, issued >>
    /\ UNCHANGED << controller, handouts >>

\* The clock read by time.time(): it advances between operations, by
\* max_pending_time or by a millisecond more.  Only the age of a request
\* is ever read, so the clock is left alone while no block is handed out.
Tick ==
    /\ ticks < MaxTicks
    /\ \E b \in DOMAIN issued : issued[b] # -1
    /\ \E d \in {max_pending_time, max_pending_time + 1} : now' = now + d
    /\ ticks' = ticks + 1
    /\ UNCHANGED << torrent, peers, pieces, missing_pieces, ongoing_pieces, have_pieces,
                    pending_blocks, file, corrupt, issued >>
    /\ UNCHANGED << controller, handouts >>

\* The peer a PIECE message came from is only logged.
Sender == CHOOSE peer_id \in PeerIds : TRUE

Next ==
    \/ \E peer_id \in PeerIds, bitfield \in Bitfields : add_peer(peer_id, bitfield)
    \/ \E peer_id \in PeerIds, index \in 0..total_pieces : update_peer(peer_id, index)
    \/ \E peer_id \in PeerIds : remove_peer(peer_id)
    \/ \E peer_id \in PeerIds : NextRequest(peer_id)
    \/ \E piece_index \in 0..total_pieces :
         \E block_offset \in Offsets(piece_index) :
         \E data \in DataChoices(piece_index, block_offset) :
            BlockReceived(Sender, piece_index, block_offset, data)
    \/ Tick

Spec == Init /\ [][Next]_vars

----------------------------------------------------------------------------
\* Construction of the piece manager for a range of metainfos: the block
\* layout that _init_pieces gives to every piece.

\* Metainfos whose number of digests is ceil(total_length / piece_length).
LayoutTorrents ==
    { [ piece_length |-> pl, total_length |-> tl ] :
        pl \in 1..MaxPieceLength, tl \in 1..MaxTotalLength }

\* PieceManager.__init__ up to the call of _init_pieces
InitLayout ==
    /\ \E t \in LayoutTorrents :
         torrent = [ piece_length |-> t.piece_length, total_length |-> t.total_length,
                     pieces |-> Digests(t) ]
    /\ pieces = [ i \in { } |-> << >> ]
    /\ missing_pieces = << >>
    /\ peers = [ p \in { } |-> << >> ]
    /\ pending_blocks = << >>
    /\ have_pieces = << >>
    /\ ongoing_pieces = << >>
    /\ file = << >>
    /\ now = 0
    /\ ticks = 0
    /\ corrupt = 0
    /\ issued = [ b \in { } |-> -1 ]
    /\ client = NewClient
    /\ tracker = NewTracker
    /\ fd_closes = 0
    /\ handouts = NoHandOuts

\* self.missing_pieces = self._init_pieces()
Construct ==
    /\ DOMAIN pieces = { }
    /\ pieces' = _init_pieces(torrent)
    /\ missing_pieces' = [ k \in 1..total_pieces |-> k - 1 ]
    /\ issued' = [ b \in BlockIds(pieces') |-> -1 ]
    /\ UNCHANGED << torrent, peers, ongoing_pieces, have_pieces, pending_blocks,
                    file, now, ticks, corrupt >>
    /\ UNCHANGED << controller, handouts >>

NextLayout == Construct

SpecLayout == InitLayout /\ [][NextLayout]_vars

----------------------------------------------------------------------------
\* TorrentClient and Tracker

Workers == 1..MAX_PEER_CONNECTIONS

\* Endpoints a tracker hands out, as (ip, port) pairs made one value.
Endpoints == { "e1", "e2", "e3" }

\* What tracker.connect may return: an interval and either a compact
\* (binary model) peer string or a list of dictionaries.
Responses ==
    { [ model |-> m, interval |-> i, peers |-> ps ] :
        m \in { "binary", "dictionary" },
        i \in { 0, 5 },
        ps \in { << >>, << "e1", "e2" >>, << "e3", "e1" >> } }

\* What a second os.close of the same descriptor number does: it raises
\* OSError, or the number was given to another open file meanwhile and that
\* file is closed.
CloseOutcomes == { "OSError", "closed" }

\* Truth value of a time or None.
Truthy(t) == t # << >> /\ t[1] # 0

\* Tracker._get_request_params; event is "" when the key is absent.
_get_request_params(first, uploaded, downloaded) ==
    [ uploaded |-> uploaded,
      downloaded |-> downloaded,
      left |-> torrent.total_length - downloaded,
      compact |-> 1,
      event |-> IF first THEN "started" ELSE "" ]

\* PieceManager.bytes_uploaded
bytes_uploaded == 0

\* first=previous_request if previous_request else False, as a truth value
FirstArgument(previous_request) ==
    IF Truthy(previous_request) THEN Truthy(previous_request) ELSE FALSE

\* A queue that is left as it was.
_empty_queue_keeps(queue) == queue

\* TorrentClient._empty_queue
_empty_queue(queue) == << >>

\* for peer in tracker_response.peers: if peer: put_nowait(peer)
Enqueue(queue, endpoints) == queue \o SelectSeq(endpoints, LAMBDA peer : peer # "")

\* TorrentClient.stop on client c, tracker t, after n calls of os.close;
\* raised tells whether piece_manager.close() raised, which skips
\* tracker.close().
stop(c, t, n, outcome) ==
    LET raised == n > 0 /\ outcome = "OSError"
    IN  [ client |-> [ c EXCEPT !.abort = TRUE,
                                !.peers = [ w \in DOMAIN c.peers |-> TRUE ] ],
          tracker |-> IF raised THEN t ELSE [ t EXCEPT !.closed = TRUE ],
          fd_closes |-> n + 1,
          raised |-> raised ]

\* (not previous_request) or (previous_request + request_interval) < current_time
AnnounceDue(c, current_time) ==
    \/ ~ Truthy(c.previous_request)
    \/ c.previous_request[1] + c.request_interval < current_time

\* start() from the top of `while True` to its next await or to its end,
\* when time.time() reads current_time.
LoopTop(c, t, n, current_time, outcome) ==
    IF c.abort \/ complete
    THEN LET r == stop(c, t, n, outcome)
         IN  [ client |-> [ r.client EXCEPT !.pc = IF r.raised THEN "raised" ELSE "done" ],
               tracker |-> r.tracker,
               fd_closes |-> r.fd_closes ]
    ELSE IF AnnounceDue(c, current_time)
    THEN [ client |-> [ c EXCEPT !.pc = "connect", !.current_time = current_time ],
           tracker |-> [ t EXCEPT !.announces =
                           Append(@, _get_request_params(FirstArgument(c.previous_request),
                                                         bytes_uploaded, bytes_downloaded)) ],
           fd_closes |-> n ]
    ELSE [ client |-> [ c EXCEPT !.pc = "sleep", !.current_time = current_time ],
           tracker |-> t,
           fd_closes |-> n ]

\* time.time(), in seconds
Seconds(ms) == ms \div 1000

Install(r) ==
    /\ client' = r.client
    /\ tracker' = r.tracker
    /\ fd_closes' = r.fd_closes

PieceManagerVars ==
    << torrent, peers, pieces, missing_pieces, ongoing_pieces, have_pieces,
       pending_blocks, file, corrupt, issued, handouts >>

\* start() is called and runs to its first await.
Start ==
    /\ client.pc = "new"
    /\ \E outcome \in CloseOutcomes :
         Install(LoopTop([ client EXCEPT !.peers = [ w \in Workers |-> FALSE ],
                                         !.previous_request = << >>,
                                         !.request_interval = 300 ],
                         tracker, fd_closes, Seconds(now), outcome))
    /\ UNCHANGED << PieceManagerVars, now, ticks >>

\* The state of start() after a binary-model response: lines from
\* `previous_request = current_time` to the end of the put_nowait loop.
AfterResponse(c, response) ==
    [ c EXCEPT !.previous_request = << c.current_time >>,
               !.request_interval = response.interval,
               !.available_peers = Enqueue(_empty_queue(@), response.peers),
               !.discarded = @ + Len(c.available_peers) - Len(_empty_queue(c.available_peers)) ]

\* The tracker after a call of connect ended with result.
Answered(t, result, endpoints) ==
    [ t EXCEPT !.responses = Append(@, [ result |-> result, peers |-> endpoints ]) ]

\* await self.tracker.connect(...) returns a response with a compact peer
\* list; start() runs on to its next await or to its end.
ConnectReturns(response) ==
    /\ client.pc = "connect"
    /\ response.model = "binary"
    /\ \E outcome \in CloseOutcomes :
         LET r == LoopTop(AfterResponse(client, response),
                          Answered(tracker, "ok", response.peers), fd_closes,
                          Seconds(now), outcome)
         IN  /\ Len(r.tracker.announces) <= MaxAnnounces
             /\ Install(r)
    /\ UNCHANGED << PieceManagerVars, now, ticks >>

\* tracker.connect raises ConnectionError (status other than 200, or
\* "failure" in the body) or the HTTP client raises: nothing in start()
\* catches it, and start() ends with the exception.
ConnectRaises ==
    /\ client.pc = "connect"
    /\ client' = [ client EXCEPT !.pc = "raised" ]
    /\ tracker' = Answered(tracker, "ConnectionError", << >>)
    /\ UNCHANGED << PieceManagerVars, now, ticks, fd_closes >>

\* The response carries a list of dictionaries: TrackerResponse.peers raises
\* NotImplementedError after previous_request and request_interval were
\* assigned and the queue was emptied.
ConnectUnsupported(response) ==
    /\ client.pc = "connect"
    /\ response.model = "dictionary"
    /\ client' = [ client EXCEPT !.pc = "raised",
                                 !.previous_request = << client.current_time >>,
                                 !.request_interval = response.interval,
                                 !.available_peers = _empty_queue(@),
                                 !.discarded = @ + Len(client.available_peers)
                                                 - Len(_empty_queue(client.available_peers)) ]
    /\ tracker' = Answered(tracker, "NotImplementedError", << >>)
    /\ UNCHANGED << PieceManagerVars, now, ticks, fd_closes >>

\* await asyncio.sleep(5) returns; start() runs on to its next await or to
\* its end.
Wake ==
    /\ client.pc = "sleep"
    /\ ticks < MaxSleeps
    /\ now' = now + 5 * 1000
    /\ ticks' = ticks + 1
    /\ \E outcome \in CloseOutcomes :
         LET r == LoopTop(client, tracker, fd_closes, Seconds(now'), outcome)
         IN  /\ Len(r.tracker.announces) <= MaxAnnounces
             /\ Install(r)
    /\ UNCHANGED PieceManagerVars

\* Some caller invokes stop() while start() is suspended.
Stop ==
    /\ client.pc \in { "connect", "sleep" }
    /\ ~ client.abort
    /\ \E outcome \in CloseOutcomes :
         Install(stop(client, tracker, fd_closes, outcome))
    /\ UNCHANGED << PieceManagerVars, now, ticks >>

\* cli.signal_handler: client.stop() and then task.cancel(), which ends
\* start() at its await.
Sigint ==
    /\ client.pc \in { "connect", "sleep" }
    /\ ~ client.abort
    /\ \E outcome \in CloseOutcomes :
         LET r == stop(client, tracker, fd_closes, outcome)
         IN  Install([ r EXCEPT !.client.pc = "cancelled" ])
    /\ UNCHANGED << PieceManagerVars, now, ticks >>

\* A worker takes the endpoint at the head of the queue.
Dequeue ==
    /\ client.pc # "new"
    /\ ~ client.abort
    /\ client.available_peers # << >>
    /\ client' = [ client EXCEPT !.available_peers = Tail(@) ]
    /\ UNCHANGED << PieceManagerVars, now, ticks, tracker, fd_closes >>

\* The workers run only once start() has created them and until stop().
WorkersRun == client.pc # "new" /\ ~ client.abort

\* The bitfield of a peer that has the last piece only.
LastOnly(n) == [ k \in 1..n |-> IF k = n THEN 1 ELSE 0 ]

\* A worker's peer sends its bitfield: it has every piece, or the last one.
WorkerRegisters ==
    /\ WorkersRun
    /\ Sender \notin DOMAIN peers
    /\ \E bitfield \in { Ones(total_pieces), LastOnly(total_pieces) } :
          add_peer(Sender, bitfield)

\* A worker's peer announces a piece it has got since.
WorkerUpdates ==
    /\ WorkersRun
    /\ Sender \in DOMAIN peers
    /\ \E index \in PieceIndexes :
          /\ peers[Sender][index + 1] = 0
          /\ update_peer(Sender, index)

\* A worker asks for the next block to request.
WorkerRequests ==
    /\ WorkersRun
    /\ Sender \in DOMAIN peers
    /\ NextRequest(Sender)

\* A worker receives the bytes of a block it requested.
WorkerDelivers ==
    /\ WorkersRun
    /\ \E b \in DOMAIN issued :
         /\ issued[b] # -1
         /\ LET block_offset == pieces[b[1]].blocks[b[2]].offset
            IN  BlockReceived(Sender, b[1], block_offset, TrueChunk(b[1], block_offset))

\* The metainfo the controller downloads: two pieces of one block each.
ControllerTorrents ==
    { [ piece_length |-> REQUEST_SIZE, total_length |-> REQUEST_SIZE + 1 ] }

\* The controller starts with a fresh piece manager and a clock that is not 0.
InitController ==
    /\ \E t \in ControllerTorrents :
         /\ torrent = [ piece_length |-> t.piece_length,
                        total_length |-> t.total_length,
                        pieces |-> Digests(t) ]
         /\ pieces = _init_pieces(t)
         /\ missing_pieces = [ k \in 1..TotalPieces(t) |-> k - 1 ]
    /\ peers = [ p \in { } |-> << >> ]
    /\ pending_blocks = << >>
    /\ have_pieces = << >>
    /\ ongoing_pieces = << >>
    /\ file = << >>
    /\ now = StartTime * 1000
    /\ ticks = 0
    /\ corrupt = 0
    /\ issued = [ b \in BlockIds(pieces) |-> -1 ]
    /\ client = NewClient
    /\ tracker = NewTracker
    /\ fd_closes = 0
    /\ handouts = NoHandOuts

NextController ==
    \/ Start
    \/ \E response \in Responses : ConnectReturns(response)
    \/ ConnectRaises
    \/ \E response \in Responses : ConnectUnsupported(response)
    \/ Wake
    \/ Stop
    \/ Sigint
    \/ Dequeue
    \/ WorkerRegisters
    \/ WorkerUpdates
    \/ WorkerRequests
    \/ WorkerDelivers

SpecController == InitController /\ [][NextController]_vars

----------------------------------------------------------------------------
\* A download from a seeder, with other peers that take blocks and leave

\* Number of blocks handed to peers that never deliver them.
MaxLost == 2

Seeder == "A"

Leecher == "B"

\* Metainfos with a short last piece and with a total_length that is a
\* multiple of piece_length, of one-block and of two-block pieces.
LiveTorrents ==
    { [ piece_length |-> REQUEST_SIZE, total_length |-> REQUEST_SIZE + 1 ],
      [ piece_length |-> REQUEST_SIZE, total_length |-> 2 * REQUEST_SIZE ],
      [ piece_length |-> 2 * REQUEST_SIZE, total_length |-> 3 * REQUEST_SIZE - 1 ],
      [ piece_length |-> 2 * REQUEST_SIZE, total_length |-> 4 * REQUEST_SIZE ] }

\* The clock's reading throughout: only the age of a request is ever read,
\* so instead of moving the clock forward the stamps are moved back.
LiveEpoch == max_pending_time + 1

\* PieceManager.__init__
InitLive ==
    /\ \E t \in LiveTorrents :
         /\ torrent = [ piece_length |-> t.piece_length,
                        total_length |-> t.total_length,
                        pieces |-> Digests(t) ]
         /\ pieces = _init_pieces(t)
         /\ missing_pieces = [ k \in 1..TotalPieces(t) |-> k - 1 ]
    /\ peers = [ p \in { } |-> << >> ]
    /\ pending_blocks = << >>
    /\ have_pieces = << >>
    /\ ongoing_pieces = << >>
    /\ file = << >>
    /\ now = LiveEpoch
    /\ ticks = 0
    /\ corrupt = 0
    /\ issued = [ b \in BlockIds(pieces) |-> -1 ]
    /\ client = NewClient
    /\ tracker = NewTracker
    /\ fd_closes = 0
    /\ handouts = [ owed |-> [ b \in BlockIds(pieces) |-> FALSE ], lost |-> 0 ]

\* The seeder sends its bitfield: it has every piece.  It never leaves.
SeederJoins ==
    /\ Seeder \notin DOMAIN peers
    /\ add_peer(Seeder, Ones(total_pieces))

\* Another peer sends its bitfield.
LeecherJoins ==
    /\ Leecher \notin DOMAIN peers
    /\ handouts.lost < MaxLost
    /\ \E bitfield \in { Ones(total_pieces), LastOnly(total_pieces) } :
          add_peer(Leecher, bitfield)

\* The other peer disconnects; what it was asked for is never delivered.
LeecherLeaves ==
    /\ Leecher \in DOMAIN peers
    /\ remove_peer(Leecher)

\* PieceManager.next_request for a registered peer; a block returned to the
\* seeder is owed, one returned to another peer is lost.
Handout(peer_id) ==
    LET r == next_request(peer_id)
        b == << r.piece, BlockAt(pieces[r.piece], r.offset) >>
    IN  /\ peer_id \in DOMAIN peers
        /\ peer_id # Seeder => handouts.lost < MaxLost
        /\ pieces' = r.pieces
        /\ missing_pieces' = r.missing_pieces
        /\ ongoing_pieces' = r.ongoing_pieces
        /\ pending_blocks' = r.pending_blocks
        /\ issued' = Outstanding(r.pieces, IF r.kind = "Block" THEN { b } ELSE { })
        /\ handouts' = IF r.kind # "Block" THEN handouts
                       ELSE IF peer_id = Seeder
                       THEN [ handouts EXCEPT !.owed[b] = TRUE ]
                       ELSE [ handouts EXCEPT !.lost = @ + 1 ]
        /\ UNCHANGED << torrent, peers, have_pieces, file, now, ticks, corrupt,
                        controller >>

\* The seeder delivers a block it owes, with the right bytes
\* (TorrentClient._on_block_retrieved).
Deliver ==
    \E b \in DOMAIN handouts.owed :
        /\ handouts.owed[b]
        /\ LET block_offset == pieces[b[1]].blocks[b[2]].offset
               r == block_received(Seeder, b[1], block_offset, TrueChunk(b[1], block_offset))
           IN  /\ pieces' = r.pieces
               /\ ongoing_pieces' = r.ongoing_pieces
               /\ have_pieces' = r.have_pieces
               /\ pending_blocks' = r.pending_blocks
               /\ file' = r.file
               /\ issued' = Outstanding(r.pieces, { })
        /\ handouts' = [ handouts EXCEPT !.owed[b] = FALSE ]
        /\ UNCHANGED << torrent, peers, missing_pieces, now, ticks, corrupt, controller >>

\* More than max_pending_time passes: every registered request is now
\* older than that.
TimePasses ==
    /\ \E e \in 1..Len(pending_blocks) : pending_blocks[e].added # 0
    /\ pending_blocks' = [ e \in 1..Len(pending_blocks) |->
                             [ pending_blocks[e] EXCEPT !.added = 0 ] ]
    /\ issued' = [ b \in DOMAIN issued |-> IF issued[b] = -1 THEN -1 ELSE 0 ]
    /\ UNCHANGED << torrent, peers, pieces, missing_pieces, ongoing_pieces, have_pieces,
                    file, now, ticks, corrupt, controller, handouts >>

NextLive ==
    \/ SeederJoins
    \/ LeecherJoins
    \/ LeecherLeaves
    \/ Handout(Seeder)
    \/ Handout(Leecher)
    \/ Deliver
    \/ TimePasses

\* The seeder joins, keeps asking and delivers what it was asked for, and
\* time passes.
SpecLive ==
    /\ InitLive
    /\ [][NextLive]_vars
    /\ WF_vars(SeederJoins)
    /\ WF_vars(Handout(Seeder))
    /\ WF_vars(Deliver)
    /\ WF_vars(TimePasses)

----------------------------------------------------------------------------
\* Vocabulary of the properties

\* The peer's registered bitfield has the bit of piece index set.
Has(peer_id, index) ==
    /\ peer_id \in DOMAIN peers
    /\ index >= 0
    /\ index < Len(peers[peer_id])
    /\ peers[peer_id][index + 1] # 0

StatusOf(index, k) == pieces[index].blocks[k].status

AllBlocks(index, status) ==
    \A k \in 1..Len(pieces[index].blocks) : StatusOf(index, k) = status

\* The data of the blocks concatenated by increasing offset.
RECURSIVE DataFrom(_, _)
DataFrom(blocks, offsets) ==
    IF offsets = { } THEN << >>
    ELSE LET o == CHOOSE x \in offsets : \A y \in offsets : x <= y
             k == CHOOSE j \in 1..Len(blocks) : blocks[j].offset = o
         IN  blocks[k].data \o DataFrom(blocks, offsets \ {o})

DataInOffsetOrder(blocks) ==
    DataFrom(blocks, { blocks[k].offset : k \in 1..Len(blocks) })

\* C1: missing_pieces, ongoing_pieces and have_pieces share no piece, hold no
\* piece twice, and together hold exactly the pieces created at startup.
C1_Partition ==
    LET all == missing_pieces \o ongoing_pieces \o have_pieces
    IN  /\ Len(all) = Len(torrent.pieces)
        /\ Range(all) = 0..(Len(torrent.pieces) - 1)
        /\ DOMAIN pieces = Range(all)

\* A verified piece sits in have_pieces beside a piece that is still ongoing.
C1_Witness == Len(have_pieces) = 1 /\ Len(ongoing_pieces) = 1

\* C2: every piece in have_pieces has all its blocks Retrieved, and the SHA-1
\* of its block data in offset order is the digest the metainfo declares;
\* wrong bytes, asked for or not, never bring a piece into have_pieces.
C2_HashCorrect ==
    \A index \in Range(have_pieces) :
        /\ AllBlocks(index, Retrieved)
        /\ sha1(DataInOffsetOrder(pieces[index].blocks)) = torrent.pieces[index + 1]

\* A piece is in have_pieces after wrong bytes were delivered, and a block of
\* an ongoing piece still holds bytes that are not the published ones.
C2_Witness ==
    /\ have_pieces # << >>
    /\ corrupt > 0
    /\ \E index \in Range(ongoing_pieces) : \E k \in 1..Len(pieces[index].blocks) :
          /\ pieces[index].blocks[k].data # NoData
          /\ pieces[index].blocks[k].data #
               TrueChunk(index, pieces[index].blocks[k].offset)

\* C3: have_pieces never shrinks, a piece in it stays in it, and nothing
\* about such a piece (statuses, data) changes in any step.
C3_HaveMonotone ==
    [][ /\ Len(have_pieces') >= Len(have_pieces)
        /\ \A index \in Range(have_pieces) :
              /\ index \in Range(have_pieces')
              /\ pieces'[index] = pieces[index] ]_vars

\* A piece is in have_pieces while wrong bytes may still be delivered for it.
C3_Witness == have_pieces # << >> /\ corrupt < MaxCorrupt

\* C4: every entry of pending_blocks is for a block of a piece that is in
\* ongoing_pieces.
C4_PendingImpliesOngoing ==
    \A k \in 1..Len(pending_blocks) :
        /\ pending_blocks[k].piece \in Range(ongoing_pieces)
        /\ pending_blocks[k].piece \notin Range(missing_pieces) \cup Range(have_pieces)

\* Requests are registered for blocks of two ongoing pieces.
C4_Witness ==
    /\ have_pieces # << >>
    /\ pending_blocks # << >>

\* The entries of pending_blocks whose piece the peer has and that are older
\* than 300,000 ms.
ExpiredEntries(peer_id) ==
    { k \in 1..Len(pending_blocks) :
        /\ Has(peer_id, pending_blocks[k].piece)
        /\ now - pending_blocks[k].added > 300000 }

\* C5: when pending_blocks holds an entry whose piece the (registered) peer
\* has and that is older than 300,000 ms, next_request returns the block of
\* the first such entry, stamps that entry with the current time in place,
\* and moves no piece and appends no entry.
C5_ExpiryLaw ==
    \A peer_id \in DOMAIN peers :
        ExpiredEntries(peer_id) # { } =>
            LET k == SetMin(ExpiredEntries(peer_id))
                r == next_request(peer_id)
            IN  /\ r.kind = "Block"
                /\ r.piece = pending_blocks[k].piece
                /\ r.offset = pending_blocks[k].offset
                /\ r.pending_blocks = [ pending_blocks EXCEPT ![k].added = now ]
                /\ r.pieces = pieces
                /\ r.missing_pieces = missing_pieces
                /\ r.ongoing_pieces = ongoing_pieces

\* C6: next_request never returns a Retrieved block; it returns a block that
\* is already Pending only when that block has an entry older than
\* 300,000 ms; and a block handed out at time t and neither delivered nor
\* reset since is not returned at a time <= t + 300,000.
C6_NoDuplicateBeforeExpiry ==
    \A peer_id \in PeerIds :
        LET r == next_request(peer_id)
        IN  r.kind = "Block" =>
              \E k \in 1..Len(pieces[r.piece].blocks) :
                 /\ pieces[r.piece].blocks[k].offset = r.offset
                 /\ StatusOf(r.piece, k) # Retrieved
                 /\ StatusOf(r.piece, k) = Pending =>
                       \E e \in 1..Len(pending_blocks) :
                          /\ pending_blocks[e].piece = r.piece
                          /\ pending_blocks[e].offset = r.offset
                          /\ now - pending_blocks[e].added > 300000
                 /\ issued[<< r.piece, k >>] # -1 =>
                       now > issued[<< r.piece, k >>] + 300000

\* A request was re-issued: an entry of pending_blocks carries a later stamp
\* than the entry behind it.
C6_Witness ==
    \E k \in 1..Len(pending_blocks) : \E j \in 1..Len(pending_blocks) :
        k < j /\ pending_blocks[k].added > pending_blocks[j].added

\* The number of registered peers whose bitfield has piece index.
Availability(index) == Cardinality({ peer \in DOMAIN peers : Has(peer, index) })

PositionIn(s, x) == CHOOSE k \in 1..Len(s) : s[k] = x

\* The pieces a call of next_request by peer_id takes out of missing_pieces.
Started(peer_id) == Range(missing_pieces) \ Range(next_request(peer_id).missing_pieces)

\* C7: a piece that next_request moves from missing_pieces to ongoing_pieces
\* is one the peer has and, among the missing pieces the peer has, one that
\* the fewest registered peers have, the earliest in missing_pieces of those.
C7_RarestFirst ==
    \A peer_id \in DOMAIN peers :
        \A index \in Started(peer_id) :
            /\ Has(peer_id, index)
            /\ index \in Range(next_request(peer_id).ongoing_pieces)
            /\ \A other \in Range(missing_pieces) :
                  Has(peer_id, other) =>
                     \/ Availability(index) < Availability(other)
                     \/ /\ Availability(index) = Availability(other)
                        /\ PositionIn(missing_pieces, index) <= PositionIn(missing_pieces, other)

\* The rarest piece is not the first missing piece the peer has: the call
\* starts a piece that stands behind another candidate in missing_pieces.
C7_Witness ==
    \E peer_id \in DOMAIN peers : \E index \in Started(peer_id) :
        \E other \in Range(missing_pieces) :
            /\ Has(peer_id, other)
            /\ PositionIn(missing_pieces, other) < PositionIn(missing_pieces, index)

\* Something useful to ask the peer for: a Missing block in a piece, ongoing
\* or missing, that the peer has.
Useful(peer_id) ==
    \E index \in Range(ongoing_pieces) \cup Range(missing_pieces) :
        /\ Has(peer_id, index)
        /\ \E k \in 1..Len(pieces[index].blocks) : StatusOf(index, k) = Missing

\* C8: next_request returns None for a registered peer only if no piece in
\* ongoing_pieces or missing_pieces that the peer has holds a Missing block.
C8_NoneOnlyIfNothingUseful ==
    \A peer_id \in DOMAIN peers :
        next_request(peer_id).kind = "None" => ~Useful(peer_id)

\* C9: a block returned by next_request belongs to a piece whose bit is set
\* in the peer's registered bitfield and that is not in have_pieces; for a
\* peer that is not registered the call returns None and changes nothing.
C9_OnlyOwnedPieces ==
    \A peer_id \in PeerIds :
        LET r == next_request(peer_id)
        IN  /\ r.kind = "Block" =>
                 /\ Has(peer_id, r.piece)
                 /\ r.piece \notin Range(have_pieces)
                 /\ \E k \in 1..Len(pieces[r.piece].blocks) :
                       pieces[r.piece].blocks[k].offset = r.offset
            /\ peer_id \notin DOMAIN peers =>
                 /\ r.kind = "None"
                 /\ r.pieces = pieces
                 /\ r.missing_pieces = missing_pieces
                 /\ r.ongoing_pieces = ongoing_pieces
                 /\ r.pending_blocks = pending_blocks

\* A registered peer is handed a block of a later ongoing piece because it
\* lacks the first ongoing piece, which has a Missing block, while another
\* peer is not registered.
C9_Witness ==
    /\ PeerIds \ DOMAIN peers # { }
    /\ Len(ongoing_pieces) > 1
    /\ \E peer_id \in DOMAIN peers :
          /\ next_request(peer_id).kind = "Block"
          /\ next_request(peer_id).piece # ongoing_pieces[1]
          /\ ~Has(peer_id, ongoing_pieces[1])
          /\ \E k \in 1..Len(pieces[ongoing_pieces[1]].blocks) :
                StatusOf(ongoing_pieces[1], k) = Missing

\* The delivery of data for the block at block_offset completes the ongoing
\* piece piece_index with bytes whose SHA-1 is not the declared digest.
CompletesWrong(piece_index, block_offset, data) ==
    /\ piece_index \in Range(ongoing_pieces)
    /\ \E k \in 1..Len(pieces[piece_index].blocks) :
          /\ pieces[piece_index].blocks[k].offset = block_offset
          /\ StatusOf(piece_index, k) # Retrieved
          /\ \A j \in 1..Len(pieces[piece_index].blocks) \ {k} :
                StatusOf(piece_index, j) = Retrieved
          /\ sha1(DataInOffsetOrder([ pieces[piece_index].blocks EXCEPT ![k].data = data ]))
                # torrent.pieces[piece_index + 1]

\* An ongoing piece with every block Missing: a piece that was reset and not
\* touched since.
WasReset(index) ==
    /\ index \in Range(ongoing_pieces)
    /\ pieces[index].blocks # << >>
    /\ AllBlocks(index, Missing)

ReturnsFirstBlock(peer_id, index) ==
    /\ next_request(peer_id).kind = "Block"
    /\ next_request(peer_id).piece = index
    /\ next_request(peer_id).offset = 0

\* No request has expired that the peer could take over, and index is the
\* first piece in ongoing_pieces that the peer has.
ReachesPiece(peer_id, index) ==
    /\ Has(peer_id, index)
    /\ ExpiredEntries(peer_id) = { }
    /\ \A k \in 1..Len(ongoing_pieces) :
          k < PositionIn(ongoing_pieces, index) => ~Has(peer_id, ongoing_pieces[k])

\* The delivery of C10: a mismatching last block puts every block of the
\* piece back to Missing, keeps the piece in ongoing_pieces and out of the
\* other two lists, and writes nothing.
ResetOnMismatch ==
    \A piece_index \in PieceIndexes :
      \A block_offset \in Offsets(piece_index) :
        \A data \in DataChoices(piece_index, block_offset) :
            CompletesWrong(piece_index, block_offset, data) =>
                LET r == block_received(Sender, piece_index, block_offset, data)
                IN  /\ \A k \in 1..Len(r.pieces[piece_index].blocks) :
                          r.pieces[piece_index].blocks[k].status = Missing
                    /\ piece_index \in Range(r.ongoing_pieces)
                    /\ piece_index \notin Range(r.have_pieces) \cup Range(missing_pieces)
                    /\ r.ongoing_pieces = ongoing_pieces
                    /\ r.have_pieces = have_pieces
                    /\ r.file = file

\* The call after the reset, as it is: a call that returns gives the block
\* at offset 0 when it gets as far as the piece.
NextAfterReset ==
    \A index \in PieceIndexes :
        WasReset(index) =>
            \A peer_id \in DOMAIN peers :
                ReachesPiece(peer_id, index) =>
                    \/ ReturnsFirstBlock(peer_id, index)
                    \/ next_request(peer_id).kind = "IndexError"

FileRange(f, pos, n) == [ k \in 1..n |-> IF pos + k <= Len(f) THEN f[pos + k] ELSE -1 ]

\* The file holds the data of every piece of have_pieces at
\* index * piece_length.
LayoutHolds ==
    \A index \in Range(have_pieces) :
        LET data == DataInOffsetOrder(pieces[index].blocks)
        IN  FileRange(file, index * torrent.piece_length, Len(data)) = data

\* A step that changes the file moves one piece, complete and matching its
\* digest, into have_pieces, and changes no byte outside that piece's range.
WrittenOnVerifyOnly ==
    file' # file =>
        \E index \in Range(ongoing_pieces) :
            /\ have_pieces' = Append(have_pieces, index)
            /\ index \notin Range(have_pieces)
            /\ \A k \in 1..Len(pieces'[index].blocks) :
                  pieces'[index].blocks[k].status = Retrieved
            /\ sha1(DataInOffsetOrder(pieces'[index].blocks)) = torrent.pieces[index + 1]
            /\ \A k \in 1..Len(file) :
                  \/ /\ k > index * torrent.piece_length
                     /\ k <= index * torrent.piece_length
                               + Len(DataInOffsetOrder(pieces'[index].blocks))
                  \/ file'[k] = file[k]

\* C11: the file holds the data of every piece in have_pieces at byte offset
\* index * piece_length; the file changes only in the step that moves a
\* complete, verified piece into have_pieces (so once per piece), and that
\* write leaves the bytes of the other pieces alone.
C11_OutputLayout ==
    [][ /\ UNCHANGED << file, have_pieces, pieces >> \/ LayoutHolds'
        /\ WrittenOnVerifyOnly
        /\ have_pieces' # have_pieces => file' # file ]_vars

\* Both pieces are in have_pieces, the later piece of the file written first.
C11_Witness ==
    /\ Len(have_pieces) = 2
    /\ have_pieces[1] > have_pieces[2]
    /\ LayoutHolds

\* The blocks tile [0, n): they start at offset 0, each begins where the one
\* before it ends, none is empty, and the last one ends at n.
Tiles(blocks, n) ==
    /\ blocks # << >>
    /\ blocks[1].offset = 0
    /\ \A k \in 1..Len(blocks) :
          /\ blocks[k].length > 0
          /\ blocks[k].offset + blocks[k].length <= n
          /\ k < Len(blocks) => blocks[k + 1].offset = blocks[k].offset + blocks[k].length
    /\ blocks[Len(blocks)].offset + blocks[Len(blocks)].length = n

Constructed == DOMAIN pieces # { }

\* C12: the blocks created for the last piece tile [0, L) with
\* L = total_length - piece_length * (len(pieces) - 1) and 0 < L <=
\* piece_length; the last piece has at least one block, also when
\* total_length is a multiple of piece_length, and its final block has
\* length L mod REQUEST_SIZE, or REQUEST_SIZE when that is zero.
C12_LastPieceLayout ==
    Constructed =>
        LET last == Len(torrent.pieces) - 1
            L == torrent.total_length - torrent.piece_length * last
            blocks == pieces[last].blocks
        IN  /\ 0 < L /\ L <= torrent.piece_length
            /\ Len(blocks) >= 1
            /\ Tiles(blocks, L)
            /\ blocks[Len(blocks)].length =
                  IF L % REQUEST_SIZE # 0 THEN L % REQUEST_SIZE ELSE REQUEST_SIZE

\* C13: the blocks created for every piece but the last start at offset 0,
\* are contiguous, none reaches past piece_length, and their lengths sum to
\* piece_length, whether or not piece_length is a multiple of REQUEST_SIZE.
C13_NonLastPieceLayout ==
    Constructed =>
        \A index \in 0..(Len(torrent.pieces) - 2) :
            Tiles(pieces[index].blocks, torrent.piece_length)

\* C14: a delivery for a piece that is not in ongoing_pieces, or at an offset
\* where the ongoing piece has no block, changes no piece list, no block's
\* status or data, and not the file (and the call returns normally).
C14_UnknownBlockIgnored ==
    \A piece_index \in 0..total_pieces :
      \A block_offset \in Offsets(piece_index) :
        \A data \in DataChoices(piece_index, block_offset) :
            (\/ piece_index \notin Range(ongoing_pieces)
             \/ \A k \in 1..Len(pieces[piece_index].blocks) :
                   pieces[piece_index].blocks[k].offset # block_offset)
            => LET r == block_received(Sender, piece_index, block_offset, data)
               IN  /\ r.branch \in {"not_ongoing", "stored"}
                   /\ r.pieces = pieces
                   /\ r.ongoing_pieces = ongoing_pieces
                   /\ r.have_pieces = have_pieces
                   /\ r.file = file

\* One piece is verified, the other is ongoing with a block received, a
\* block requested and its request registered: deliveries for the verified
\* piece, for an unknown piece and at an unknown offset all have something
\* they could disturb.
C14_Witness ==
    /\ have_pieces # << >>
    /\ pending_blocks # << >>
    /\ \E index \in Range(ongoing_pieces) :
          /\ \E k \in 1..Len(pieces[index].blocks) : StatusOf(index, k) = Retrieved
          /\ \E k \in 1..Len(pieces[index].blocks) : StatusOf(index, k) = Pending

\* C15: add_peer refuses a bitfield whose length is not the number of
\* pieces, so every registered bitfield has one bit per piece and no
\* next_request call fails to index it.
C15_BitfieldLengthValidated ==
    \A peer_id \in DOMAIN peers :
        /\ Len(peers[peer_id]) = Len(torrent.pieces)
        /\ next_request(peer_id).kind # "IndexError"

\* The bytes of the verified pieces: piece_length for each piece of
\* have_pieces, the last piece counted at its true length.
PersistedBytes ==
    LET last == Len(torrent.pieces) - 1
        L == torrent.total_length - torrent.piece_length * last
    IN  Len(have_pieces) * torrent.piece_length
          - (IF last \in Range(have_pieces) THEN torrent.piece_length - L ELSE 0)

\* C16: bytes_downloaded is the number of bytes of the verified pieces, the
\* last piece counted at its true length, and so never exceeds total_length.
C16_BytesDownloaded ==
    /\ bytes_downloaded = PersistedBytes
    /\ bytes_downloaded <= torrent.total_length

\* start() has ended: it returned, an exception left it, or it was cancelled.
Ended == client.pc \in { "done", "raised", "cancelled" }

\* C17: the request of the first announce call carries event=started and
\* the request of no later announce call does.
C17_StartedOnFirstAnnounceOnly ==
    \A k \in 1..Len(tracker.announces) :
        (tracker.announces[k].event = "started") <=> (k = 1)

\* The last call of connect has ended and it failed.
LastAnnounceFailed ==
    /\ Len(tracker.responses) = Len(tracker.announces)
    /\ tracker.responses # << >>
    /\ tracker.responses[Len(tracker.responses)].result # "ok"

\* C18: a failed announce does not end the main loop: unless a stop was
\* requested, start() is at one of its awaits after it, from where the
\* announce is made again.
C18_FailedAnnounceRetried ==
    (LastAnnounceFailed /\ ~ client.abort) => client.pc \in { "connect", "sleep" }

\* A call of connect ends in this step, with a response.
AnnounceSucceeds ==
    /\ Len(tracker'.responses) = Len(tracker.responses) + 1
    /\ tracker'.responses[Len(tracker'.responses)].result = "ok"

\* q is what is left of queue after endpoints were taken from its head.
RestOf(queue, q) ==
    /\ Len(q) <= Len(queue)
    /\ q = SubSeq(queue, Len(queue) - Len(q) + 1, Len(queue))

\* C19: the step in which an announce succeeds leaves in the peer queue
\* exactly the endpoints of its response, in response order, whatever the
\* queue held before; no other step adds an endpoint to the queue.
C19_QueueReplacedOnAnnounce ==
    [][ IF AnnounceSucceeds
        THEN client'.available_peers = tracker'.responses[Len(tracker'.responses)].peers
        ELSE RestOf(client.available_peers, client'.available_peers) ]_vars

\* Two announces succeeded, the second while endpoints of the first were
\* still queued; the queue holds the second response's endpoints.
C19_Witness ==
    /\ Len(tracker.responses) = 2
    /\ tracker.responses[1] = [ result |-> "ok", peers |-> << "e1", "e2" >> ]
    /\ tracker.responses[2] = [ result |-> "ok", peers |-> << "e3", "e1" >> ]
    /\ client.discarded > 0
    /\ client.available_peers = << "e3", "e1" >>

\* C20: whenever start() has ended, stop was invoked on every worker, the
\* piece manager's file was closed and the tracker was closed.
C20_CleanupWhenStartEnds ==
    Ended =>
        /\ DOMAIN client.peers = Workers
        /\ \A w \in Workers : client.peers[w]
        /\ fd_closes >= 1
        /\ tracker.closed

\* C21: stop() may be called any number of times: the output file's
\* descriptor is closed at most once.
C21_StopIdempotent == fd_closes <= 1

\* pending_blocks holds a PendingRequest for block k of piece index.
Tracked(index, k) ==
    \E e \in 1..Len(pending_blocks) :
        /\ pending_blocks[e].piece = index
        /\ pending_blocks[e].offset = pieces[index].blocks[k].offset

\* C22: every block whose status is Pending has an entry in pending_blocks.
C22_PendingTracked ==
    \A b \in BlockIds(pieces) : StatusOf(b[1], b[2]) = Pending => Tracked(b[1], b[2])

\* The status changes that a call makes, as pairs (before, after), between
\* the pieces before and ps after.
StatusChanges(ps) ==
    { << StatusOf(b[1], b[2]), ps[b[1]].blocks[b[2]].status >> : b \in BlockIds(pieces) }
        \ { << Missing, Missing >>, << Pending, Pending >>, << Retrieved, Retrieved >> }

\* C24: next_request changes a block's status only from Missing to Pending;
\* block_received changes it only from Pending to Retrieved and, when it
\* resets the piece, from Retrieved (or the delivered Pending block) to
\* Missing; storing the bytes never makes a Missing block Retrieved.
C24_BlockLifecycle ==
    /\ \A peer_id \in PeerIds :
          StatusChanges(next_request(peer_id).pieces) \subseteq { << Missing, Pending >> }
    /\ \A piece_index \in PieceIndexes :
        \A block_offset \in Offsets(piece_index) :
          \A data \in DataChoices(piece_index, block_offset) :
             /\ StatusChanges(block_received(Sender, piece_index, block_offset, data).pieces)
                   \subseteq { << Pending, Retrieved >>, << Retrieved, Missing >>,
                               << Pending, Missing >> }
             /\ piece_index \in Range(ongoing_pieces) =>
                  \A k \in 1..Len(pieces[piece_index].blocks) :
                     StatusOf(piece_index, k) = Missing =>
                        piece_block_received(pieces[piece_index], block_offset,
                                             data).blocks[k].status # Retrieved

\* C25: pending_blocks holds at most one entry for a (piece, offset), every
\* entry is for a block whose status is Pending, and a delivery for the
\* (piece, offset) of an entry removes that entry and no other.
C25_PendingEntriesUnique ==
    /\ \A e \in 1..Len(pending_blocks) : \A f \in 1..Len(pending_blocks) :
          (/\ pending_blocks[e].piece = pending_blocks[f].piece
           /\ pending_blocks[e].offset = pending_blocks[f].offset) => e = f
    /\ \A e \in 1..Len(pending_blocks) :
          \E k \in 1..Len(pieces[pending_blocks[e].piece].blocks) :
             /\ pieces[pending_blocks[e].piece].blocks[k].offset = pending_blocks[e].offset
             /\ StatusOf(pending_blocks[e].piece, k) = Pending
    /\ \A e \in 1..Len(pending_blocks) :
          \A data \in DataChoices(pending_blocks[e].piece, pending_blocks[e].offset) :
             block_received(Sender, pending_blocks[e].piece, pending_blocks[e].offset,
                            data).pending_blocks = RemoveAt(pending_blocks, e)

\* Two requests are registered, one of them stamped after the clock
\* advanced and one before, and a piece was reset before.
C25_Witness ==
    /\ Len(pending_blocks) >= 2
    /\ \E e \in 1..Len(pending_blocks) : pending_blocks[e].added = now /\ now > 0
    /\ \E e \in 1..Len(pending_blocks) : pending_blocks[e].added < now
    /\ corrupt > 0

\* C26: the `left` of every announce request is not negative.
C26_LeftNeverNegative ==
    \A k \in 1..Len(tracker.announces) : tracker.announces[k].left >= 0

\* The short last piece was verified first and an announce reported it as a
\* full piece_length, more than the bytes persisted.
C26_Witness ==
    /\ have_pieces = << total_pieces - 1 >>
    /\ \E k \in 1..Len(tracker.announces) :
          /\ tracker.announces[k].downloaded = torrent.piece_length
          /\ tracker.announces[k].downloaded > PersistedBytes
          /\ tracker.announces[k].left >= 0

\* C23: when a peer that has every piece stays registered, keeps asking for
\* blocks and delivers each block it is given, and other peers only take
\* blocks and leave, the download eventually completes.
C23_EventuallyComplete == <>complete

====
